---- MODULE Spec2Model ----
(***************************************************************************)
(* A model of the backfill orchestrator (src/unnamed/part_000) and of the  *)
(* repo-decode worker (src/src/backfill/workers/repo.ts).                  *)
(*                                                                         *)
(* The program is several cooperating parts; each has its own              *)
(* specification over the shared variable list:                            *)
(*   SpecRpc    one logical request through WrappedRPC.request             *)
(*   SpecQueue  main()'s admission loop against fetchQueue, by counts      *)
(*   SpecSched  main(), queueRepo and the job handler of repoWorker, by    *)
(*              account                                                    *)
(*   SpecWorker the job handler and the sendCommits timer of repoWorker    *)
(*   SpecSup    the supervisor: worker tables, exit, error and message     *)
(*              handlers                                                   *)
(*   SpecFetch  one account from rpc.get to the end of its job            *)
(*   SpecStamp  the timestamp given to one decoded record                  *)
(*   SpecQueueFair  SpecQueue with the scheduling of the loop and of the   *)
(*              fetches, for progress                                      *)
(***************************************************************************)
EXTENDS Integers, Sequences, FiniteSets, TLC

VARIABLES
    \* ---- WrappedRPC.request (one logical request) ----
    rpcPc,      \* "request" | "sleeping" | "returned" | "thrown"
    attempt,    \* the `attempt` parameter of the running invocation
    requests,   \* number of super.request calls made so far
    last,       \* the last response and what processRatelimitHeaders did with it
    sleeping,   \* the sleep in progress: [ms, why, next]
    \* ---- fetchQueue seen by its counts ----
    qIdx,       \* entries of repos the loop of main() has passed
    qSize,      \* fetchQueue.size: tasks added and not yet started
    qPending,   \* fetchQueue.pending: tasks started and not yet settled
    \* ---- main() and queueRepo ----
    repos,      \* the list readDids() returned: a sequence of [did, pds]
    seenDids,   \* the Set main() built from backfill:seen
    mainPc,     \* "start" | "loop" | "done"
    idx,        \* the entry of repos the loop is at (1-based)
    fetchQueue, \* [queue: tasks waiting to start, running: tasks started]
    tasks,      \* per entry of repos, its queueRepo call: [pc, body]
    fetches,    \* per did, the rpc.get calls started for it
    enqueues,   \* per did, the jobs created for it
    \* ---- shared stores ----
    seen,       \* the Redis set backfill:seen
    files,      \* REPOS_DIR: per did, the snapshot stored or NoFile
    jobs,       \* repo-processing queue: ids of the jobs waiting
    activeJobs, \* repo-processing queue: ids of the jobs being processed
    stalls,     \* the jobs redelivered while being processed, so far
    \* ---- repoWorker ----
    workerState,\* "running" | "exited"
    execs,      \* the runs of the job handler: [pc, did, repo, pos, path]
    commitData, \* per collection, the records buffered
    sent,       \* the messages given to process.send, in order
    decoded,    \* records pushed onto commitData so far
    ticks,      \* runs of sendCommits so far
    \* ---- the supervisor (cluster primary) ----
    supState,   \* "running", or the uncaught error that ended the primary
    numCPUs,    \* os.availableParallelism()
    procs,      \* per worker.id, the forked process: [pid, kind, index, state]
    nextId,     \* the id cluster.fork() gives next
    workers,    \* the table `workers`: repo, writeCollection, writeRecord(2)
    collectionToWriteWorkerId,
    lastRoute,  \* what the 'message' handler did with the last message
    forks,      \* forks made after startup
    lastMessage,\* the last message the 'message' handler was called with
    forwards,   \* the worker.send calls it made for that message, in order
    handled,    \* messages handled so far
    \* ---- the timestamp of one decoded record ----
    yielded,    \* what iterateAtpRepo yielded: [createdAt, rkey]
    clock,      \* const now = Date.now()
    stamped     \* the timestamp of the record pushed: [done, ms]

rpcVars == <<rpcPc, attempt, requests, last, sleeping>>
queueVars == <<qIdx, qSize, qPending>>
schedVars == <<repos, seenDids, mainPc, idx, fetchQueue, tasks, fetches, enqueues>>
storeVars == <<seen, files, jobs, activeJobs, stalls>>
workerVars == <<workerState, execs, commitData, sent, decoded, ticks>>

supVars == <<supState, numCPUs, procs, nextId, workers, collectionToWriteWorkerId,
             lastRoute, forks, lastMessage, forwards, handled>>

stampVars == <<yielded, clock, stamped>>

vars == <<rpcVars, queueVars, schedVars, storeVars, workerVars, supVars, stampVars>>

\* The variables an action of one part leaves alone.
OnlyRpc == UNCHANGED <<queueVars, schedVars, storeVars, workerVars, supVars, stampVars>>
OnlyQueue == UNCHANGED <<rpcVars, schedVars, storeVars, workerVars, supVars, stampVars>>
OnlySched == UNCHANGED <<rpcVars, queueVars, workerVars, supVars, stampVars>>
OnlyWorker == UNCHANGED <<rpcVars, queueVars, schedVars, supVars, stampVars>>
OnlySup == UNCHANGED <<rpcVars, queueVars, schedVars, storeVars, workerVars, stampVars>>
OnlyStamp == UNCHANGED <<rpcVars, queueVars, schedVars, storeVars, workerVars, supVars>>

(***************************************************************************)
(* Header strings.  A header value is a sequence of one-character strings; *)
(* the empty sequence stands for a header that is absent (undefined) or    *)
(* empty: both are falsy in the test of line 347.                          *)
(***************************************************************************)
Digits == <<"0", "1", "2", "3", "4", "5", "6", "7", "8", "9">>

IsDigit(c) == \E i \in 1..10 : Digits[i] = c

DigitVal(c) == (CHOOSE i \in 1..10 : Digits[i] = c) - 1

\* A JavaScript number as parseInt gives it: NaN, or an integer.
NaN == [nan |-> TRUE, n |-> 0]
Number(n) == [nan |-> FALSE, n |-> n]
isNaN(x) == x.nan

RECURSIVE parseDigits(_, _, _)
parseDigits(s, i, acc) ==
    IF i > Len(s) \/ ~IsDigit(s[i]) THEN acc
    ELSE parseDigits(s, i + 1, acc * 10 + DigitVal(s[i]))

\* parseInt(string): optional sign, then the longest prefix of decimal digits;
\* NaN when there is no digit.
parseInt(s) ==
    LET neg  == Len(s) >= 1 /\ s[1] = "-"
        body == IF Len(s) >= 1 /\ s[1] \in {"-", "+"} THEN Tail(s) ELSE s
    IN  IF body = <<>> \/ ~IsDigit(body[1]) THEN NaN
        ELSE IF neg THEN Number(0 - parseDigits(body, 1, 0))
        ELSE Number(parseDigits(body, 1, 0))

\* What a server writes for a count or an epoch-seconds value n >= 0.
RECURSIVE toDecimal(_)
toDecimal(n) ==
    IF n < 10 THEN <<Digits[n + 1]>>
    ELSE toDecimal(n \div 10) \o <<Digits[(n % 10) + 1]>>

NoHeader == <<>>
Garbage == <<"x">>

\* A header field as the server means it: not sent, not a number, or a
\* number; HeaderOf is what travels.
FieldNone == [t |-> "none", n |-> 0]
FieldJunk == [t |-> "junk", n |-> 0]
FieldNum(n) == [t |-> "num", n |-> n]

HeaderOf(v) ==
    IF v.t = "none" THEN NoHeader
    ELSE IF v.t = "junk" THEN Garbage
    ELSE IF v.n < 0 THEN <<"-">> \o toDecimal(0 - v.n)
    ELSE toDecimal(v.n)

(***************************************************************************)
(* processRatelimitHeaders (part_000:340-363).  The result is the wait     *)
(* handed to onRatelimit, or NoWait when onRatelimit is not called.        *)
(***************************************************************************)
NoWait == [applied |-> FALSE, ms |-> 0]

RemainingExhaustedAtZero(ratelimitRemaining) ==
    isNaN(ratelimitRemaining) \/ ratelimitRemaining.n < 1

\* isNaN(ratelimitRemaining) || ratelimitRemaining <= 1
RemainingExhausted(ratelimitRemaining) ==
    isNaN(ratelimitRemaining) \/ ratelimitRemaining.n <= 1

processRatelimitHeaders(remainingHeader, resetHeader, now) ==
    IF remainingHeader = NoHeader \/ resetHeader = NoHeader THEN NoWait
    ELSE LET ratelimitRemaining == parseInt(remainingHeader)
         IN  IF ~RemainingExhausted(ratelimitRemaining) THEN NoWait
             ELSE LET parsedReset == parseInt(resetHeader)
                  IN  IF isNaN(parsedReset) THEN NoWait
                      ELSE LET ratelimitReset == parsedReset.n * 1000
                               waitTime == ratelimitReset - now + 1000
                           IN  IF waitTime > 0
                               THEN [applied |-> TRUE, ms |-> waitTime]
                               ELSE NoWait

(***************************************************************************)
(* WrappedRPC.request (part_000:273-300).                                  *)
(***************************************************************************)
backoffs == <<1000, 5000, 15000, 30000, 60000, 120000, 300000>>

BackoffFlat(a) == 60000

\* backoffs[attempt] || 60000
Backoff(a) ==
    IF (a + 1) \in DOMAIN backoffs /\ backoffs[a + 1] # 0
    THEN backoffs[a + 1] ELSE 60000

AttemptsExhaustedLate(a) == a > 7

\* if (attempt > 6) throw err;
AttemptsExhausted(a) == a > 6

\* What the server can mean by its two rate-limit fields, and the clock
\* readings Date.now() can give (ms).
RemainingValues == {FieldNone, FieldJunk} \cup {FieldNum(n) : n \in {-1, 0, 1, 2, 10}}
ResetValues == {FieldNone, FieldJunk} \cup {FieldNum(n) : n \in {0, 1, 2, 3, 12}}
Nows == {0, 999, 1000, 2000, 2001, 3000, 4500}

\* XRPCError names queueRepo tells apart.
ErrorNames == {"RepoDeactivated", "RepoTakendown", "RepoNotFound", "Other"}

NoResponse ==
    [kind |-> "none", name |-> "none", remaining |-> FieldNone, reset |-> FieldNone,
     now |-> 0, attempt |-> 0, wait |-> NoWait, retried |-> FALSE]
Response(kind, name, rem, rst, now, a, w, retried) ==
    [kind |-> kind, name |-> name, remaining |-> rem, reset |-> rst,
     now |-> now, attempt |-> a, wait |-> w, retried |-> retried]
NotSleeping == [ms |-> 0, why |-> "none", next |-> "none"]

\* The request before it starts; also the value of these variables in the
\* specifications of the other parts.
RpcAtStart ==
    /\ rpcPc = "request"
    /\ attempt = 0
    /\ requests = 0
    /\ last = NoResponse
    /\ sleeping = NotSleeping

\* const res = await super.request(options);
\* await processRatelimitHeaders(res.headers, url, sleep); return res;
RequestOk ==
    /\ OnlyRpc
    /\ rpcPc = "request"
    /\ \E rem \in RemainingValues, rst \in ResetValues, now \in Nows :
         LET w == processRatelimitHeaders(HeaderOf(rem), HeaderOf(rst), now)
         IN  /\ last' = Response("ok", "none", rem, rst, now, attempt, w, FALSE)
             /\ IF w.applied
                THEN /\ rpcPc' = "sleeping"
                     /\ sleeping' = [ms |-> w.ms, why |-> "ratelimit", next |-> "return"]
                ELSE /\ rpcPc' = "returned"
                     /\ sleeping' = NotSleeping
    /\ requests' = requests + 1
    /\ UNCHANGED attempt

Request429Surfaced ==
    /\ OnlyRpc
    /\ rpcPc = "request"
    /\ \E rem \in RemainingValues, rst \in ResetValues, now \in Nows :
         last' = Response("429", "none", rem, rst, now, attempt, NoWait, FALSE)
    /\ rpcPc' = "thrown"
    /\ sleeping' = NotSleeping
    /\ requests' = requests + 1
    /\ UNCHANGED attempt

\* super.request throws XRPCError with status 429.
Request429 ==
    /\ OnlyRpc
    /\ rpcPc = "request"
    /\ \E rem \in RemainingValues, rst \in ResetValues, now \in Nows :
         IF AttemptsExhausted(attempt)
         THEN /\ last' = Response("429", "none", rem, rst, now, attempt, NoWait, FALSE)
              /\ rpcPc' = "thrown"
              /\ sleeping' = NotSleeping
              /\ UNCHANGED attempt
         ELSE LET w == processRatelimitHeaders(HeaderOf(rem), HeaderOf(rst), now)
              IN  /\ last' = Response("429", "none", rem, rst, now, attempt, w, TRUE)
                  /\ IF w.applied
                     THEN /\ rpcPc' = "sleeping"
                          /\ sleeping' = [ms |-> w.ms, why |-> "ratelimit", next |-> "retry"]
                          /\ UNCHANGED attempt
                     ELSE /\ rpcPc' = "request"
                          /\ sleeping' = NotSleeping
                          /\ attempt' = attempt + 1
    /\ requests' = requests + 1

\* super.request throws an XRPCError whose status is not 429: rethrown.
RequestXrpcError ==
    /\ OnlyRpc
    /\ rpcPc = "request"
    /\ \E name \in ErrorNames :
         last' = Response("XRPCError", name, FieldNone, FieldNone, 0, attempt,
                          NoWait, FALSE)
    /\ rpcPc' = "thrown"
    /\ sleeping' = NotSleeping
    /\ requests' = requests + 1
    /\ UNCHANGED attempt

RequestTypeErrorRetried ==
    /\ OnlyRpc
    /\ rpcPc = "request"
    /\ requests' = requests + 1
    /\ last' = Response("TypeError", "none", FieldNone, FieldNone, 0, attempt,
                        NoWait, ~AttemptsExhausted(attempt))
    /\ IF AttemptsExhausted(attempt)
       THEN rpcPc' = "thrown" /\ sleeping' = NotSleeping
       ELSE /\ rpcPc' = "sleeping"
            /\ sleeping' = [ms |-> Backoff(attempt), why |-> "backoff", next |-> "retry"]
    /\ UNCHANGED attempt

\* super.request throws a TypeError (fetch could not connect): rethrown.
RequestTypeError ==
    /\ OnlyRpc
    /\ rpcPc = "request"
    /\ last' = Response("TypeError", "none", FieldNone, FieldNone, 0, attempt,
                        NoWait, FALSE)
    /\ rpcPc' = "thrown"
    /\ sleeping' = NotSleeping
    /\ requests' = requests + 1
    /\ UNCHANGED attempt

\* super.request throws anything else: back off and retry.
RequestNetworkError ==
    /\ OnlyRpc
    /\ rpcPc = "request"
    /\ requests' = requests + 1
    /\ IF AttemptsExhausted(attempt)
       THEN /\ last' = Response("NetworkError", "none", FieldNone, FieldNone, 0,
                                attempt, NoWait, FALSE)
            /\ rpcPc' = "thrown"
            /\ sleeping' = NotSleeping
       ELSE /\ last' = Response("NetworkError", "none", FieldNone, FieldNone, 0,
                                attempt, NoWait, TRUE)
            /\ rpcPc' = "sleeping"
            /\ sleeping' = [ms |-> Backoff(attempt), why |-> "backoff", next |-> "retry"]
    /\ UNCHANGED attempt

\* The sleep ends: return res, or this.request(options, attempt + 1).
Wake ==
    /\ OnlyRpc
    /\ rpcPc = "sleeping"
    /\ sleeping' = NotSleeping
    /\ IF sleeping.next = "return"
       THEN rpcPc' = "returned" /\ UNCHANGED attempt
       ELSE rpcPc' = "request" /\ attempt' = attempt + 1
    /\ UNCHANGED <<requests, last>>

(***************************************************************************)
(* fetchQueue = new PQueue({ concurrency: 100 }) and the loop of main()    *)
(* (part_000:243, 253-263), with the tasks counted and not told apart.     *)
(* PQueue.add starts the task at once while fewer than `concurrency` run,  *)
(* and queues it otherwise; a task that settles starts the head of the     *)
(* queue in the same turn.  onSizeLessThan(n) resolves when size < n.      *)
(***************************************************************************)
concurrency == 100
sizeLimit == 250

\* Entries of repos that main() admits or skips in SpecQueue.
QueueRepos == 360

onSizeLessThanNoWait(size) == TRUE

\* A wait that resolves only below an empty backlog, that is never.
onSizeLessThanNever(size) == size < 0

\* await fetchQueue.onSizeLessThan(250)
onSizeLessThan(size) == size < sizeLimit

QueueAtStart ==
    /\ qIdx = 0
    /\ qSize = 0
    /\ qPending = 0

\* An entry on the denylisted host or in seenDids: continue.
QSkip ==
    /\ OnlyQueue
    /\ qIdx < QueueRepos
    /\ qIdx' = qIdx + 1
    /\ UNCHANGED <<qSize, qPending>>

\* void fetchQueue.add(() => queueRepo(pds, did))
QAdd ==
    /\ OnlyQueue
    /\ qIdx < QueueRepos
    /\ onSizeLessThan(qSize)
    /\ qIdx' = qIdx + 1
    /\ IF qPending < concurrency
       THEN qPending' = qPending + 1 /\ UNCHANGED qSize
       ELSE qSize' = qSize + 1 /\ UNCHANGED qPending

\* A running queueRepo settles; the queue starts its head, if any.
QSettle ==
    /\ OnlyQueue
    /\ qPending > 0
    /\ IF qSize > 0
       THEN qSize' = qSize - 1 /\ UNCHANGED qPending
       ELSE qPending' = qPending - 1 /\ UNCHANGED qSize
    /\ UNCHANGED qIdx

(***************************************************************************)
(* The data main(), queueRepo and repoWorker work on.                      *)
(***************************************************************************)
Dids == {"did:a", "did:b"}
Hosts == {"https://pds.example", "https://blueski.social"}
Collections == {"posts", "likes"}

\* pds.includes("blueski.social")
includesBlueski(pds) == pds = "https://blueski.social"

\* Bounds of the model: the length of the account list, and the runs of the
\* sendCommits timer.
MaxRepos == 3
MaxTicks == 2

\* The runs of the job handler that can be in progress in the model (the
\* worker allows jobConcurrency of them).
Execs == {1, 2}

\* A snapshot: the records iterateAtpRepo yields from it, each told by its
\* collection (its rkey is its place in the snapshot), and whether iterating
\* throws after them (a malformed container).
SeqsUpTo(S, n) == UNION {[1..k -> S] : k \in 0..n}
Snapshot(records, corrupt) == [bytes |-> "car", records |-> records, corrupt |-> corrupt]
Snapshots ==
    {Snapshot(<<>>, FALSE), Snapshot(<<"posts">>, FALSE),
     Snapshot(<<"posts", "likes">>, FALSE),
     Snapshot(<<>>, TRUE), Snapshot(<<"likes">>, TRUE)}
NoFile == [bytes |-> "none", records |-> <<>>, corrupt |-> FALSE]
EmptyBody == [bytes |-> "empty", records |-> <<>>, corrupt |-> FALSE]

\* The bodies a host answers getRepo with: nothing, or a snapshot.
Bodies == {EmptyBody, Snapshot(<<"posts">>, FALSE), Snapshot(<<"likes">>, TRUE)}

\* The errors rpc.get can end with: an XRPCError by name, or another error.
FetchErrors ==
    {[xrpc |-> TRUE, name |-> n] : n \in ErrorNames}
      \cup {[xrpc |-> FALSE, name |-> "TypeError"]}

NoTask == [pc |-> "none", body |-> EmptyBody]
FreeExec ==
    [pc |-> "free", did |-> "none", repo |-> NoFile, pos |-> 0, path |-> "none",
     unlinks |-> 0]

StoresAtStart ==
    /\ files = [d \in Dids |-> NoFile]
    /\ jobs = {}
    /\ activeJobs = {}
    /\ stalls = {}

WorkerAtStart ==
    /\ workerState = "running"
    /\ execs = [e \in Execs |-> FreeExec]
    /\ commitData = [c \in Collections |-> <<>>]
    /\ sent = <<>>
    /\ decoded = 0
    /\ ticks = 0

SchedIdle ==
    /\ repos = <<>>
    /\ seenDids = {}
    /\ mainPc = "done"
    /\ idx = 1
    /\ fetchQueue = [queue |-> <<>>, running |-> {}]
    /\ tasks = <<>>
    /\ fetches = [d \in Dids |-> 0]
    /\ enqueues = [d \in Dids |-> 0]

(***************************************************************************)
(* main() (part_000:245-264) and fetchQueue, by account.                   *)
(***************************************************************************)
\* PQueue starts a task: queueRepo begins with rpc.get.
StartTask(q, t) == [q EXCEPT !.running = @ \cup {t}]

\* PQueue.add
QueueAdd(q, t) ==
    IF Cardinality(q.running) < concurrency
    THEN StartTask(q, t)
    ELSE [q EXCEPT !.queue = Append(@, t)]

\* A task settles: PQueue starts the head of the queue, if any.
QueueSettle(q, t) ==
    LET r == q.running \ {t}
    IN  IF q.queue # <<>>
        THEN [queue |-> Tail(q.queue), running |-> r \cup {Head(q.queue)}]
        ELSE [queue |-> q.queue, running |-> r]

\* The tasks that `after` runs and `before` did not: their rpc.get starts.
Started(before, after) == after.running \ before.running

StartedPc(ts, before, after) ==
    [t \in DOMAIN ts |->
        IF t \in Started(before, after) THEN [ts[t] EXCEPT !.pc = "fetching"]
        ELSE ts[t]]

CountFetches(before, after) ==
    [d \in Dids |->
        fetches[d] + Cardinality({t \in Started(before, after) : repos[t].did = d})]

SkipsDenylistOnly(entry) == includesBlueski(entry.pds)

\* if (pds.includes("blueski.social")) continue; if (seenDids.has(did)) continue;
Skips(entry) == includesBlueski(entry.pds) \/ entry.did \in seenDids

\* const seenDids = new Set(await redis.sMembers("backfill:seen"))
MainReadSeen ==
    /\ OnlySched
    /\ mainPc = "start"
    /\ seenDids' = seen
    /\ mainPc' = IF repos = <<>> THEN "done" ELSE "loop"
    /\ UNCHANGED <<repos, idx, fetchQueue, tasks, fetches, enqueues>>
    /\ UNCHANGED storeVars

Advance == 
    /\ idx' = idx + 1
    /\ mainPc' = IF idx = Len(repos) THEN "done" ELSE "loop"

MainSkip ==
    /\ OnlySched
    /\ mainPc = "loop"
    /\ Skips(repos[idx])
    /\ Advance
    /\ UNCHANGED <<repos, seenDids, fetchQueue, tasks, fetches, enqueues>>
    /\ UNCHANGED storeVars

\* await fetchQueue.onSizeLessThan(250); void fetchQueue.add(() => queueRepo(pds, did))
MainAdd ==
    /\ OnlySched
    /\ mainPc = "loop"
    /\ ~Skips(repos[idx])
    /\ onSizeLessThan(Len(fetchQueue.queue))
    /\ LET q == QueueAdd(fetchQueue, idx)
           ts == [tasks EXCEPT ![idx] = [pc |-> "queued", body |-> EmptyBody]]
       IN  /\ fetchQueue' = q
           /\ tasks' = StartedPc(ts, fetchQueue, q)
           /\ fetches' = CountFetches(fetchQueue, q)
    /\ Advance
    /\ UNCHANGED <<repos, seenDids, enqueues>>
    /\ UNCHANGED storeVars

(***************************************************************************)
(* queueRepo (part_000:303-327).                                           *)
(***************************************************************************)
\* queueRepo returns: its task settles in fetchQueue.
Settle(t, ts) ==
    LET q == QueueSettle(fetchQueue, t)
    IN  /\ fetchQueue' = q
        /\ tasks' = StartedPc([ts EXCEPT ![t] = [pc |-> "done", body |-> EmptyBody]],
                              fetchQueue, q)
        /\ fetches' = CountFetches(fetchQueue, q)

\* rpc.get returns data: nothing to do for an empty body, else Bun.write.
FetchOk(t) ==
    /\ OnlySched
    /\ t \in DOMAIN tasks /\ tasks[t].pc = "fetching"
    /\ \E body \in Bodies :
         \* if (repo?.length)
         IF body.bytes = "empty"
         THEN Settle(t, tasks)
         ELSE /\ tasks' = [tasks EXCEPT ![t] = [pc |-> "writing", body |-> body]]
              /\ UNCHANGED <<fetchQueue, fetches>>
    /\ UNCHANGED <<repos, seenDids, mainPc, idx, enqueues>>
    /\ UNCHANGED storeVars

\* await Bun.write(path.join(REPOS_DIR, did), repo)
WriteSnapshot(t) ==
    /\ OnlySched
    /\ t \in DOMAIN tasks /\ tasks[t].pc = "writing"
    /\ files' = [files EXCEPT ![repos[t].did] = tasks[t].body]
    /\ tasks' = [tasks EXCEPT ![t].pc = "saving"]
    /\ UNCHANGED <<repos, seenDids, mainPc, idx, fetchQueue, fetches, enqueues>>
    /\ UNCHANGED <<seen, jobs, activeJobs, stalls>>

\* await queue.createJob({ did }).setId(did).save(): a job whose id the queue
\* already holds is not created again.
SaveJob(t) ==
    /\ OnlySched
    /\ t \in DOMAIN tasks /\ tasks[t].pc = "saving"
    /\ LET did == repos[t].did
       IN  IF did \in jobs \cup activeJobs
           THEN UNCHANGED <<jobs, enqueues>>
           ELSE /\ jobs' = jobs \cup {did}
                /\ enqueues' = [enqueues EXCEPT ![did] = @ + 1]
    /\ Settle(t, tasks)
    /\ UNCHANGED <<repos, seenDids, mainPc, idx>>
    /\ UNCHANGED <<seen, files, activeJobs, stalls>>

TerminalNameAnyXrpc(err) == err.xrpc

\* err instanceof XRPCError && err.name is RepoDeactivated, RepoTakendown or
\* RepoNotFound
TerminalName(err) ==
    err.xrpc /\ err.name \in {"RepoDeactivated", "RepoTakendown", "RepoNotFound"}

\* catch (err): the account is marked seen on a terminal protocol error.
Catch(t, err) ==
    /\ OnlySched
    /\ t \in DOMAIN tasks /\ tasks[t].pc = "fetching"
    /\ seen' = IF TerminalName(err) THEN seen \cup {repos[t].did} ELSE seen
    /\ Settle(t, tasks)
    /\ UNCHANGED <<repos, seenDids, mainPc, idx, enqueues>>
    /\ UNCHANGED <<files, jobs, activeJobs, stalls>>

\* rpc.get throws.
FetchError(t) == \E err \in FetchErrors : Catch(t, err)

\* What WrappedRPC.request threw, as queueRepo sees it.
ThrownError ==
    [xrpc |-> last.kind \in {"XRPCError", "429"},
     name |-> IF last.kind = "XRPCError" THEN last.name ELSE last.kind]

\* rpc.get returns what WrappedRPC.request returned.
GetReturns(t) == rpcPc = "returned" /\ FetchOk(t)

\* rpc.get throws what WrappedRPC.request threw.
GetThrows(t) == rpcPc = "thrown" /\ Catch(t, ThrownError)

(***************************************************************************)
(* repoWorker (repo.ts:12-103): the handler of queue.process, the 'failed' *)
(* listener and the sendCommits timer.                                     *)
(***************************************************************************)
\* queue.process(30, ...)
jobConcurrency == 30

Running(e) == execs[e].pc \in {"decode", "unlink"}
Idle(e) == ~Running(e)

CanTake(e, did) ==
    /\ workerState = "running"
    /\ Idle(e)
    /\ Cardinality({x \in DOMAIN execs : Running(x)}) < jobConcurrency
    /\ did \in jobs

Take(did) ==
    /\ jobs' = jobs \ {did}
    /\ activeJobs' = activeJobs \cup {did}

\* The decoded record pushed onto commitData[collection].
CommitOf(did, collection, rkey) ==
    [uri |-> <<did, collection, rkey>>, collection |-> collection]

BufferKeyFirst(collection) == "posts"

\* (commitData[collection] ??= []): the buffer a record of the collection is
\* pushed onto.
BufferKey(collection) == collection

\* Bun.mmap gives the bytes: the handler goes on to iterate them.
JobStart(e, did) ==
    /\ OnlyWorker
    /\ CanTake(e, did)
    /\ files[did].bytes = "car"
    /\ Take(did)
    /\ execs' = [execs EXCEPT ![e] =
                    [pc |-> "decode", did |-> did, repo |-> files[did],
                     pos |-> 0, path |-> "none", unlinks |-> 0]]
    /\ UNCHANGED <<seen, files, stalls, workerState, commitData, sent, decoded, ticks>>

\* Bun.mmap throws ENOENT and the handler goes on to its finally block.
JobStartNoFileFallsThrough(e, did) ==
    /\ OnlyWorker
    /\ CanTake(e, did)
    /\ files[did].bytes = "none"
    /\ Take(did)
    /\ execs' = [execs EXCEPT ![e] =
                    [pc |-> "unlink", did |-> did, repo |-> NoFile,
                     pos |-> 0, path |-> "enoent", unlinks |-> 0]]
    /\ UNCHANGED <<seen, files, stalls, workerState, commitData, sent, decoded, ticks>>

\* Bun.mmap throws ENOENT (no such file): return.
JobStartNoFile(e, did) ==
    /\ OnlyWorker
    /\ CanTake(e, did)
    /\ files[did].bytes = "none"
    /\ jobs' = jobs \ {did}
    /\ activeJobs' = activeJobs \ {did}
    /\ execs' = [execs EXCEPT ![e] =
                    [pc |-> "done", did |-> did, repo |-> NoFile,
                     pos |-> 0, path |-> "enoent", unlinks |-> 0]]
    /\ UNCHANGED <<seen, files, stalls, workerState, commitData, sent, decoded, ticks>>

\* Bun.mmap throws another error on a file that is there, or gives no bytes
\* ("Got empty repo"): warn and return.
JobStartReadError(e, did) ==
    /\ OnlyWorker
    /\ CanTake(e, did)
    /\ files[did].bytes # "none"
    /\ jobs' = jobs \ {did}
    /\ activeJobs' = activeJobs \ {did}
    /\ execs' = [execs EXCEPT ![e] =
                    [pc |-> "done", did |-> did, repo |-> NoFile,
                     pos |-> 0, path |-> "readerror", unlinks |-> 0]]
    /\ UNCHANGED <<seen, files, stalls, workerState, commitData, sent, decoded, ticks>>

\* One turn of for await (... of iterateAtpRepo(repo)): push the record.
DecodeRecord(e) ==
    /\ OnlyWorker
    /\ workerState = "running"
    /\ execs[e].pc = "decode"
    /\ execs[e].pos < Len(execs[e].repo.records)
    /\ LET rkey == execs[e].pos + 1
           collection == execs[e].repo.records[rkey]
       IN  commitData' = [commitData EXCEPT ![BufferKey(collection)] =
                            Append(@, CommitOf(execs[e].did, collection, rkey))]
    /\ decoded' = decoded + 1
    /\ execs' = [execs EXCEPT ![e].pos = @ + 1]
    /\ UNCHANGED <<workerState, sent, ticks>>
    /\ UNCHANGED storeVars

DecodeThrowsUncaught(e) ==
    /\ OnlyWorker
    /\ workerState = "running"
    /\ execs[e].pc = "decode"
    /\ execs[e].pos = Len(execs[e].repo.records)
    /\ execs[e].repo.corrupt
    /\ execs' = [execs EXCEPT ![e].pc = "failed", ![e].path = "decodefail"]
    /\ workerState' = "exited"
    /\ UNCHANGED <<commitData, sent, decoded, ticks>>
    /\ UNCHANGED storeVars

\* iterateAtpRepo throws: caught and logged; on to the finally block.
DecodeThrows(e) ==
    /\ OnlyWorker
    /\ workerState = "running"
    /\ execs[e].pc = "decode"
    /\ execs[e].pos = Len(execs[e].repo.records)
    /\ execs[e].repo.corrupt
    /\ execs' = [execs EXCEPT ![e].pc = "unlink", ![e].path = "decodefail"]
    /\ UNCHANGED <<workerState, commitData, sent, decoded, ticks>>
    /\ UNCHANGED storeVars

\* The iteration ends: await redis.sAdd("backfill:seen", did).
MarkSeen(e) ==
    /\ OnlyWorker
    /\ workerState = "running"
    /\ execs[e].pc = "decode"
    /\ execs[e].pos = Len(execs[e].repo.records)
    /\ ~execs[e].repo.corrupt
    /\ seen' = seen \cup {execs[e].did}
    /\ execs' = [execs EXCEPT ![e].pc = "unlink", ![e].path = "decoded"]
    /\ UNCHANGED <<workerState, commitData, sent, decoded, ticks>>
    /\ UNCHANGED <<files, jobs, activeJobs, stalls>>

\* finally: await fs.unlink(...) removes the file and the handler returns.
Unlink(e) ==
    /\ OnlyWorker
    /\ workerState = "running"
    /\ execs[e].pc = "unlink"
    /\ files[execs[e].did].bytes # "none"
    /\ files' = [files EXCEPT ![execs[e].did] = NoFile]
    /\ activeJobs' = activeJobs \ {execs[e].did}
    /\ execs' = [execs EXCEPT ![e].pc = "done", ![e].unlinks = @ + 1]
    /\ UNCHANGED <<workerState, commitData, sent, decoded, ticks>>
    /\ UNCHANGED <<seen, jobs, stalls>>

\* finally: fs.unlink throws ENOENT: the handler rejects, the queue emits
\* 'failed', and its listener calls process.exit(1).
UnlinkThrows(e) ==
    /\ OnlyWorker
    /\ workerState = "running"
    /\ execs[e].pc = "unlink"
    /\ files[execs[e].did].bytes = "none"
    /\ execs' = [execs EXCEPT ![e].pc = "failed"]
    /\ activeJobs' = activeJobs \ {execs[e].did}
    /\ workerState' = "exited"
    /\ UNCHANGED <<commitData, sent, decoded, ticks>>
    /\ UNCHANGED <<seen, files, jobs, stalls>>

\* The queue delivers at least once: a job being processed whose worker did
\* not renew it in time is put back among the waiting jobs.
JobStalled(did) ==
    /\ OnlyWorker
    /\ did \notin stalls
    /\ did \in activeJobs
    /\ did \notin jobs
    /\ jobs' = jobs \cup {did}
    /\ stalls' = stalls \cup {did}
    /\ UNCHANGED <<seen, files, activeJobs>>
    /\ UNCHANGED workerVars

\* What sendCommits leaves in commitData: it removes nothing.
AfterSend(buffer) == buffer

\* The batches one run of sendCommits sends: one per entry of commitData.
BatchesOf(buffer) ==
    LET cs == {c \in DOMAIN buffer : buffer[c] # <<>>}
        RECURSIVE list(_)
        list(left) ==
            IF left = {} THEN <<>>
            ELSE LET c == CHOOSE x \in left : TRUE
                 IN  <<[type |-> "commit", collection |-> c, commits |-> buffer[c]]>>
                       \o list(left \ {c})
    IN  list(cs)

\* setTimeout(sendCommits, 200)
SendCommits ==
    /\ OnlyWorker
    /\ workerState = "running"
    /\ ticks < MaxTicks
    /\ ticks' = ticks + 1
    /\ sent' = sent \o BatchesOf(commitData)
    /\ commitData' = AfterSend(commitData)
    /\ UNCHANGED <<workerState, execs, decoded>>
    /\ UNCHANGED storeVars

(***************************************************************************)
(* The supervisor (part_000:113-223).  A forked process is "live" until it *)
(* exits; worker.kill() leaves it "killed" (disconnected, about to exit)   *)
(* until its 'exit' event is handled, and "dead" after.  Process ids are   *)
(* never reused in the model.                                              *)
(***************************************************************************)
\* writeWorkerAllocations (./workers/writeCollection.js): the collections of
\* slot i are Allocations[i + 1]; the slots are disjoint.
Allocations ==
    <<{"app.bsky.feed.post"},
      {"app.bsky.feed.like", "app.bsky.graph.follow"},
      {"app.bsky.actor.profile"}>>

\* for (let i = 0; i < 3; i++) spawnWriteCollectionWorker(i)
Slots == {0, 1, 2}

AllocatedCollections == UNION {Allocations[i + 1] : i \in Slots}

\* The availableParallelism values of the model.
CPUs == {1, 2}

\* Forks after startup.
MaxForks == 2

\* The worker ids cluster.fork() can give within the model: those of startup
\* with the most CPUs, and MaxForks more.
WorkerIds == 1..(5 + 3 + MaxForks)

PidOf(id) == 1000 + id

NoSlot == [pid |-> 0, id |-> 0]

\* The supervisor's bookkeeping as one value.
Sup == [procs |-> procs, nextId |-> nextId, workers |-> workers,
        route |-> collectionToWriteWorkerId]

EmptySup ==
    [procs |-> <<>>, nextId |-> 1,
     workers |-> [repo |-> {}, writeCollection |-> <<>>,
                  writeRecord |-> NoSlot, writeRecord2 |-> NoSlot],
     route |-> <<>>]

\* cluster.fork(env): a new live process with the next worker id.
Fork(S, kind, index) ==
    [S EXCEPT !.procs = S.nextId :> [pid |-> PidOf(S.nextId), kind |-> kind,
                                     index |-> index, state |-> "live"] @@ @,
              !.nextId = @ + 1]

spawnWriteCollectionWorkerRoutesPid(S, i) ==
    LET id == S.nextId
        F == Fork(S, "writeCollection", i)
    IN  [F EXCEPT !.workers.writeCollection = PidOf(id) :> i @@ @,
                  !.route = [c \in Allocations[i + 1] |-> PidOf(id)] @@ @]

\* part_000:128-140
spawnWriteCollectionWorker(S, i) ==
    LET id == S.nextId
        F == Fork(S, "writeCollection", i)
    IN  [F EXCEPT !.workers.writeCollection = PidOf(id) :> i @@ @,
                  !.route = [c \in Allocations[i + 1] |-> id] @@ @]

\* part_000:145-165: forks two workers and fills both slots.
spawnWriteRecordWorker(S) ==
    LET id1 == S.nextId
        F1 == Fork(S, "writeRecord", 0)
        G1 == [F1 EXCEPT !.workers.writeRecord = [pid |-> PidOf(id1), id |-> id1]]
        id2 == G1.nextId
        F2 == Fork(G1, "writeRecord", 0)
    IN  [F2 EXCEPT !.workers.writeRecord2 = [pid |-> PidOf(id2), id |-> id2]]

\* part_000:172-181
spawnRepoWorker(S) ==
    LET id == S.nextId
        F == Fork(S, "repo", 0)
    IN  [F EXCEPT !.workers.repo = @ \cup {PidOf(id)}]

RECURSIVE spawnRepoWorkers(_, _)
spawnRepoWorkers(S, n) ==
    IF n = 0 THEN S ELSE spawnRepoWorkers(spawnRepoWorker(S), n - 1)

\* for (let i = 3; i < numCPUs * 3; i++) spawnRepoWorker()
RepoWorkerCount(cpus) == IF cpus * 3 > 3 THEN cpus * 3 - 3 ELSE 0

\* The tables after the startup code (part_000:141-186) has run.
Startup(cpus) ==
    LET A == spawnWriteCollectionWorker(
                 spawnWriteCollectionWorker(
                     spawnWriteCollectionWorker(EmptySup, 0), 1), 2)
        \* if (!workers.writeRecord.pid) spawnWriteRecordWorker()
        B == IF A.workers.writeRecord.pid = 0 THEN spawnWriteRecordWorker(A) ELSE A
    IN  spawnRepoWorkers(B, RepoWorkerCount(cpus))

\* The workers that have not exited.
NotExited(S) == {id \in DOMAIN S.procs : S.procs[id].state # "dead"}

\* cluster.workers: a worker leaves it when it disconnects or exits.  A killed
\* worker that has not exited yet is in it until its disconnect arrives
\* (gone).
ClusterWorkers(S, gone) ==
    {id \in DOMAIN S.procs :
        \/ S.procs[id].state = "live"
        \/ S.procs[id].state = "killed" /\ ~gone}

\* The replacements a supervisor handler forks, as the change of the tables.
Becomes(S) ==
    /\ procs' = S.procs
    /\ nextId' = S.nextId
    /\ workers' = S.workers
    /\ collectionToWriteWorkerId' = S.route
    /\ forks' = forks + (S.nextId - nextId)

ForksLeft(n) == forks + n <= MaxForks

\* The branch of the 'exit' handler for pid (part_000:188-204), as the tables
\* after it, or "unknown" when it throws.
ExitBranch(S, pid) ==
    IF pid \in DOMAIN S.workers.writeCollection THEN "writeCollection"
    ELSE IF pid = S.workers.writeRecord.pid THEN "writeRecord"
    ELSE IF pid = S.workers.writeRecord2.pid THEN "writeRecord2"
    ELSE IF pid \in S.workers.repo THEN "repo"
    ELSE "unknown"

\* cluster.workers?.[id]?.kill() on the worker whose exit is being handled
\* changes nothing: the process is gone.
ExitHandler(S, pid) ==
    LET branch == ExitBranch(S, pid)
    IN  IF branch = "writeCollection"
        THEN spawnWriteCollectionWorker(S, S.workers.writeCollection[pid])
        ELSE IF branch \in {"writeRecord", "writeRecord2"}
        THEN spawnWriteRecordWorker(S)
        ELSE IF branch = "repo" THEN spawnRepoWorker(S)
        ELSE S

\* A worker process exits (by itself, or after worker.kill()) and the
\* primary handles its 'exit' event.
WorkerExit(id) ==
    /\ OnlySup
    /\ supState = "running"
    /\ id \in NotExited(Sup)
    /\ LET pid == procs[id].pid
           S == [Sup EXCEPT !.procs[id].state = "dead"]
       IN  /\ ForksLeft(ExitHandler(S, pid).nextId - nextId)
           /\ Becomes(ExitHandler(S, pid))
           /\ supState' = IF ExitBranch(S, pid) = "unknown"
                          THEN "unknown worker" ELSE supState
    /\ UNCHANGED <<numCPUs, lastRoute, lastMessage, forwards, handled>>

\* A tracked worker emits 'error' (part_000:135-139, 150-154, 160-164,
\* 176-180): worker.kill(); cluster.fork() with no environment, so the new
\* process has no WORKER_KIND and is in no table.
WorkerError(id) ==
    /\ OnlySup
    /\ supState = "running"
    /\ id \in DOMAIN procs
    /\ procs[id].state = "live"
    /\ procs[id].kind # "none"
    /\ ForksLeft(1)
    /\ Becomes(Fork([Sup EXCEPT !.procs[id].state = "killed"], "none", 0))
    /\ UNCHANGED <<supState, numCPUs, lastRoute, lastMessage, forwards, handled>>

\* The messages a repo worker can send: a batch for a collection (one that is
\* allocated or not) with or without commits, or something malformed: another
\* type, an empty collection, or no commits field (commits = -1).  The
\* commits of a batch are told apart by their number only.
MessageCollections == AllocatedCollections \cup {"com.example.other"}
Messages ==
    [type : {"commit"}, collection : MessageCollections, commits : {0, 1}]
      \cup {[type |-> "other", collection |-> "app.bsky.feed.post", commits |-> 1],
            [type |-> "commit", collection |-> "", commits |-> 1],
            [type |-> "commit", collection |-> "app.bsky.feed.post", commits |-> -1]}

\* Messages handled in SpecSup.
MaxMessages == 1

NoRoute == [collection |-> "none", writeCollection |-> 0, writeRecord |-> 0]
NoMessage == [type |-> "none", collection |-> "none", commits |-> 0]

\* message?.type !== "commit" || !message.collection || !message.commits
Malformed(m) == m.type # "commit" \/ m.collection = "" \/ m.commits < 0

\* worker.send(message)
Send(id, m) == [to |-> id, message |-> m]

\* cluster.on("message") (part_000:206-223); pick is Math.random() < 0.5.
\* A worker that is not in cluster.workers is undefined there, and
\* undefined!.send(message) throws: the primary ends with what it had sent.
Message(m, pick, gone) ==
    /\ OnlySup
    /\ supState = "running"
    /\ handled < MaxMessages
    /\ handled' = handled + 1
    /\ lastMessage' = m
    /\ IF Malformed(m)
       THEN /\ supState' = "invalid message"
            /\ forwards' = <<>>
            /\ UNCHANGED lastRoute
       ELSE IF m.commits = 0 \/ m.collection \notin DOMAIN collectionToWriteWorkerId
       THEN /\ forwards' = <<>>
            /\ UNCHANGED <<supState, lastRoute>>
       ELSE LET wc == collectionToWriteWorkerId[m.collection]
                wr == IF pick THEN workers.writeRecord.id ELSE workers.writeRecord2.id
            IN  IF wr \notin ClusterWorkers(Sup, gone)
                THEN /\ supState' = "send to no worker"
                     /\ forwards' = <<>>
                     /\ UNCHANGED lastRoute
                ELSE IF wc \notin ClusterWorkers(Sup, gone)
                THEN /\ supState' = "send to no worker"
                     /\ forwards' = <<Send(wr, m)>>
                     /\ UNCHANGED lastRoute
                ELSE /\ forwards' = <<Send(wr, m), Send(wc, m)>>
                     /\ lastRoute' = [collection |-> m.collection,
                                      writeCollection |-> wc, writeRecord |-> wr]
                     /\ UNCHANGED supState
    /\ UNCHANGED <<numCPUs, procs, nextId, workers, collectionToWriteWorkerId, forks>>

SupIdle ==
    /\ supState = "running"
    /\ numCPUs = 1
    /\ procs = <<>>
    /\ nextId = 1
    /\ workers = EmptySup.workers
    /\ collectionToWriteWorkerId = <<>>
    /\ lastRoute = NoRoute
    /\ forks = 0
    /\ lastMessage = NoMessage
    /\ forwards = <<>>
    /\ handled = 0

(***************************************************************************)
(* The timestamp of a decoded record (repo.ts:48-73).  Times are in        *)
(* milliseconds since the epoch, as Date.now() and Date.getTime() give     *)
(* them; the code compares parseTID(rkey).timestamp with them as it is.    *)
(***************************************************************************)
Times == {-5, 0, 1, 5, 10, 20}

\* record.createdAt: no such field (or no object), a value that is not a
\* string, a string Date cannot parse, or a string Date parses to a time.
CreatedAtAbsent == [t |-> "absent", ms |-> 0]
CreatedAtNonString == [t |-> "nonstring", ms |-> 0]
CreatedAtJunk == [t |-> "junk", ms |-> 0]
CreatedAtDate(ms) == [t |-> "date", ms |-> ms]
CreatedAts ==
    {CreatedAtAbsent, CreatedAtNonString, CreatedAtJunk}
      \cup {CreatedAtDate(ms) : ms \in Times}

\* rkey: a TID, which embeds a time (never negative), or something else.
RkeyOther == [t |-> "other", ms |-> 0]
RkeyTid(ms) == [t |-> "tid", ms |-> ms]
Rkeys == {RkeyOther} \cup {RkeyTid(ms) : ms \in Times \cap Nat}

\* new Date(record.createdAt).getTime(): a number, NaN for an invalid date.
getTime(createdAt) == IF createdAt.t = "date" THEN Number(createdAt.ms) ELSE NaN

\* JavaScript truthiness of a number: false for 0 and NaN.
Truthy(x) == ~x.nan /\ x.n # 0

\* (!!record && typeof record === "object" && "createdAt" in record
\*   && typeof record.createdAt === "string"
\*   && new Date(record.createdAt).getTime()) || 0
FromCreatedAt(createdAt) ==
    IF createdAt.t \in {"absent", "nonstring"} THEN Number(0)
    ELSE IF Truthy(getTime(createdAt)) THEN getTime(createdAt)
    ELSE Number(0)

\* try { indexedAt = parseTID(rkey).timestamp } catch { indexedAt = now }
FromRkey(rkey, now) == IF rkey.t = "tid" THEN Number(rkey.ms) ELSE Number(now)

\* repo.ts:55-66.
indexedAt(createdAt, rkey, now) ==
    LET first == FromCreatedAt(createdAt)
        second == IF ~Truthy(first) \/ isNaN(first) THEN FromRkey(rkey, now) ELSE first
    IN  IF second.n > now THEN now ELSE second.n

NotStamped == [done |-> FALSE, ms |-> 0]

StampIdle ==
    /\ yielded = [createdAt |-> CreatedAtAbsent, rkey |-> RkeyOther]
    /\ clock = 0
    /\ stamped = NotStamped

\* One turn of the decode loop, for its timestamp: timestamp: new
\* Date(indexedAt).toISOString(), the instant indexedAt.
Stamp ==
    /\ OnlyStamp
    /\ ~stamped.done
    /\ stamped' = [done |-> TRUE, ms |-> indexedAt(yielded.createdAt, yielded.rkey, clock)]
    /\ UNCHANGED <<yielded, clock>>

(***************************************************************************)
(* Specifications                                                          *)
(***************************************************************************)
InitRpc == RpcAtStart /\ QueueAtStart /\ SchedIdle /\ StoresAtStart /\ WorkerAtStart /\ SupIdle /\ StampIdle
    /\ seen = {}

NextRpc ==
    \/ RequestOk
    \/ Request429
    \/ RequestXrpcError
    \/ RequestTypeError
    \/ RequestNetworkError
    \/ Wake

SpecRpc == InitRpc /\ [][NextRpc]_vars

InitQueue == QueueAtStart /\ RpcAtStart /\ SchedIdle /\ StoresAtStart /\ WorkerAtStart /\ SupIdle /\ StampIdle
    /\ seen = {}

NextQueue ==
    \/ QSkip
    \/ QAdd
    \/ QSettle

SpecQueue == InitQueue /\ [][NextQueue]_vars

\* The same machine with its scheduling.  main() resumes in the turn after
\* onSizeLessThan resolves and then calls fetchQueue.add, so an add that
\* stays possible is taken; every started queueRepo settles (each await in
\* it ends, which is what the loop's progress is conditional on).  No entry
\* is obliged to be skipped: behaviours in which every entry is admitted are
\* among the fair ones.
FairQueue == WF_vars(QAdd) /\ WF_vars(QSettle)

SpecQueueFair == InitQueue /\ [][NextQueue]_vars /\ FairQueue

\* A run of the orchestrator over a list of accounts, with one decode worker.
InitSched ==
    /\ RpcAtStart /\ QueueAtStart /\ StoresAtStart /\ WorkerAtStart /\ SupIdle /\ StampIdle
    /\ repos \in SeqsUpTo([did : Dids, pds : Hosts], MaxRepos)
    /\ seen \in SUBSET Dids
    /\ seenDids = {}
    /\ mainPc = "start"
    /\ idx = 1
    /\ fetchQueue = [queue |-> <<>>, running |-> {}]
    /\ tasks = [t \in DOMAIN repos |-> NoTask]
    /\ fetches = [d \in Dids |-> 0]
    /\ enqueues = [d \in Dids |-> 0]

\* The job handler, run in the slots E.
HandlerStep(E) ==
    \/ \E e \in E, did \in Dids : JobStart(e, did)
    \/ \E e \in E, did \in Dids : JobStartNoFile(e, did)
    \/ \E e \in E, did \in Dids : JobStartReadError(e, did)
    \/ \E e \in E : DecodeRecord(e)
    \/ \E e \in E : DecodeThrows(e)
    \/ \E e \in E : MarkSeen(e)
    \/ \E e \in E : Unlink(e)

NextSched ==
    \/ MainReadSeen
    \/ MainSkip
    \/ MainAdd
    \/ \E t \in 1..MaxRepos : FetchOk(t)
    \/ \E t \in 1..MaxRepos : WriteSnapshot(t)
    \/ \E t \in 1..MaxRepos : SaveJob(t)
    \/ \E t \in 1..MaxRepos : FetchError(t)
    \/ HandlerStep({1})

SpecSched == InitSched /\ [][NextSched]_vars

\* One decode worker over the jobs it finds waiting: each for a snapshot
\* queueRepo stored, or for one that is gone (a job left by an earlier run,
\* whose REPOS_DIR was another directory).
InitWorker ==
    /\ RpcAtStart /\ QueueAtStart /\ SchedIdle /\ WorkerAtStart /\ SupIdle /\ StampIdle
    /\ seen = {}
    /\ files \in [Dids -> Snapshots \cup {NoFile}]
    /\ jobs = Dids
    /\ activeJobs = {}
    /\ stalls = {}

NextWorker ==
    \/ HandlerStep(Execs)
    \/ \E e \in Execs : UnlinkThrows(e)
    \/ \E did \in Dids : JobStalled(did)
    \/ SendCommits

SpecWorker == InitWorker /\ [][NextWorker]_vars

\* One account from rpc.get to the end of its job: WrappedRPC.request, the
\* rest of queueRepo, and the job handler.
FetchedEntry == [did |-> "did:a", pds |-> "https://pds.example"]

InitFetch ==
    /\ RpcAtStart /\ QueueAtStart /\ StoresAtStart /\ WorkerAtStart /\ SupIdle /\ StampIdle
    /\ seen = {}
    /\ repos = <<FetchedEntry>>
    /\ seenDids = {}
    /\ mainPc = "done"
    /\ idx = 2
    /\ fetchQueue = [queue |-> <<>>, running |-> {1}]
    /\ tasks = <<[pc |-> "fetching", body |-> EmptyBody]>>
    /\ fetches = [d \in Dids |-> IF d = FetchedEntry.did THEN 1 ELSE 0]
    /\ enqueues = [d \in Dids |-> 0]

NextFetch ==
    \/ RequestOk
    \/ Request429
    \/ RequestXrpcError
    \/ RequestTypeError
    \/ RequestNetworkError
    \/ Wake
    \/ GetReturns(1)
    \/ GetThrows(1)
    \/ WriteSnapshot(1)
    \/ SaveJob(1)
    \/ \E did \in Dids : JobStart(1, did)
    \/ \E did \in Dids : JobStartReadError(1, did)
    \/ DecodeRecord(1)
    \/ DecodeThrows(1)
    \/ MarkSeen(1)
    \/ Unlink(1)

SpecFetch == InitFetch /\ [][NextFetch]_vars

\* One record of a snapshot, for its timestamp.
InitStamp ==
    /\ RpcAtStart /\ QueueAtStart /\ SchedIdle /\ StoresAtStart /\ WorkerAtStart /\ SupIdle
    /\ seen = {}
    /\ yielded \in [createdAt : CreatedAts, rkey : Rkeys]
    /\ clock \in Times \cap Nat
    /\ stamped = NotStamped

NextStamp == Stamp

SpecStamp == InitStamp /\ [][NextStamp]_vars

\* The supervisor after startup, its workers exiting and failing, and
\* messages arriving from repo workers.
InitSup ==
    /\ RpcAtStart /\ QueueAtStart /\ SchedIdle /\ StoresAtStart /\ WorkerAtStart
    /\ StampIdle
    /\ seen = {}
    /\ supState = "running"
    /\ numCPUs \in CPUs
    /\ procs = Startup(numCPUs).procs
    /\ nextId = Startup(numCPUs).nextId
    /\ workers = Startup(numCPUs).workers
    /\ collectionToWriteWorkerId = Startup(numCPUs).route
    /\ lastRoute = NoRoute
    /\ forks = 0
    /\ lastMessage = NoMessage
    /\ forwards = <<>>
    /\ handled = 0

NextSup ==
    \/ \E id \in WorkerIds : WorkerExit(id)
    \/ \E id \in WorkerIds : WorkerError(id)
    \/ \E m \in Messages, pick \in BOOLEAN, gone \in BOOLEAN : Message(m, pick, gone)

SpecSup == InitSup /\ [][NextSup]_vars

(***************************************************************************)
(* Properties of WrappedRPC.request                                        *)
(***************************************************************************)
\* The wait the rule of 4.1 prescribes for the last response: reset time
\* (epoch seconds, as the header gives it) - now + 1000 ms.
RuleWait == last.reset.n * 1000 - last.now + 1000

RuleApplies ==
    /\ last.remaining.t = "num"
    /\ last.reset.t = "num"

WaitRuleHolds ==
    /\ last.remaining.n <= 1 =>
         /\ last.wait.applied <=> RuleWait > 0
         /\ last.wait.applied => last.wait.ms = RuleWait
    /\ last.remaining.n > 1 => ~last.wait.applied

\* C8 as stated: at most 7 underlying request attempts are made for one
\* logical request.
C8_AtMostSevenAttempts == requests <= 7

\* C8, amended: at most 8 underlying request attempts are made for one logical
\* request (attempt numbers 0..7: the first attempt and at most 7 retries),
\* and the 8th failure is surfaced to the caller without a further attempt.
C8_AtMostEightAttempts ==
    /\ requests <= 8
    /\ requests = 8 /\ last.kind # "ok" => rpcPc = "thrown"
    /\ rpcPc \in {"thrown", "returned"} => requests = attempt + 1

C8_Witness ==
    /\ requests = 8
    /\ rpcPc = "thrown"
    /\ last.kind \in {"429", "NetworkError"}

\* C9 as stated: after every response that is a success or a rate-limit error
\* and reports remaining <= 1 and reset time T, the client sleeps T - now + 1000
\* ms iff that is > 0; it does not sleep when remaining > 1.
C9_WaitAfterEveryResponse ==
    last.kind \in {"ok", "429"} /\ RuleApplies => WaitRuleHolds

\* C9, amended: the rule holds after every success and after every rate-limit
\* error that is retried (attempt <= 6); the wait the rule computes is what the
\* client sleeps, and a sleep for a rate limit is never <= 0.  A rate-limit
\* error on the last attempt (attempt 7) is surfaced with no wait at all.
C9_WaitAfterReturnedOrRetried ==
    /\ last.kind = "ok" \/ (last.kind = "429" /\ last.attempt <= 6) =>
         /\ RuleApplies => WaitRuleHolds
         /\ last.wait.applied =>
              \/ rpcPc = "sleeping" /\ sleeping.why = "ratelimit"
                    /\ sleeping.ms = last.wait.ms
              \/ rpcPc # "sleeping" /\ (attempt > last.attempt \/ rpcPc = "returned")
    /\ last.kind = "429" /\ last.attempt > 6 =>
         ~last.wait.applied /\ rpcPc = "thrown"
    /\ rpcPc = "sleeping" /\ sleeping.why = "ratelimit" =>
         sleeping.ms > 0 /\ last.wait.applied /\ sleeping.ms = last.wait.ms

C9_Witness ==
    /\ last.kind = "429"
    /\ last.remaining = FieldNum(1)
    /\ last.reset = FieldNum(12)
    /\ rpcPc = "sleeping"
    /\ sleeping.ms = 12000 - last.now + 1000

(***************************************************************************)
(* Properties of the fetch scheduler                                       *)
(***************************************************************************)
\* The entries of repos before `upTo` that name did and are not skipped.
Admitted(did, upTo) ==
    {t \in DOMAIN repos : t < upTo /\ repos[t].did = did /\ ~Skips(repos[t])}

TotalFetches == fetches["did:a"] + fetches["did:b"]

\* C1: no fetch request is issued for an account id that was in the Seen-Set
\* when main() read it; every other entry of the list that is not on the
\* denylisted host gets exactly one.
C1_IdempotentSkip ==
    mainPc # "start" =>
      \A d \in Dids :
        /\ d \in seenDids => fetches[d] = 0
        /\ fetches[d] = Cardinality(Admitted(d, idx))

\* A list of 3 accounts on a conforming host, 1 of them seen: 2 requests.
C1_Witness ==
    /\ mainPc = "done"
    /\ Len(repos) = 3
    /\ \A t \in DOMAIN repos : ~includesBlueski(repos[t].pds)
    /\ Cardinality({t \in DOMAIN repos : repos[t].did \in seenDids}) = 1
    /\ TotalFetches = 2

\* C2: once an account id is in the Seen-Set, no fetch is started and no job
\* is created for it any more.
C2_SeenNeverRefetchedOrRequeued ==
    [][\A d \in Dids :
          d \in seen => fetches'[d] = fetches[d] /\ enqueues'[d] = enqueues[d]]_vars

(***************************************************************************)
(* Properties of the decode worker                                         *)
(***************************************************************************)
\* C3: when a run of the job handler has ended, the snapshot of its account
\* does not exist, and the run deleted it exactly once if there was one when
\* the job started.
C3_SnapshotGoneAfterHandler ==
    \A e \in Execs :
      execs[e].pc = "done" =>
        /\ files[execs[e].did].bytes = "none"
        /\ execs[e].path # "enoent" => execs[e].unlinks = 1

RECURSIVE CountCommits(_)
CountCommits(batches) ==
    IF batches = <<>> THEN 0
    ELSE Len(Head(batches).commits) + CountCommits(Tail(batches))

Buffered == Len(commitData["posts"]) + Len(commitData["likes"])

\* C4: every decoded record is either still in the buffer or was sent in
\* exactly one batch: the records sent and the records buffered add up to
\* the records decoded.
C4_EachRecordSentOnce == CountCommits(sent) + Buffered = decoded

(***************************************************************************)
(* Properties of the fetch queue                                           *)
(***************************************************************************)
\* C10: at most 100 fetches are outstanding at any time, a task is admitted
\* only when fewer than 250 admitted tasks wait to start, and so the backlog
\* never exceeds 250.
C10_BoundedFetchAndBacklog ==
    /\ [](qPending <= 100 /\ qSize <= 250)
    /\ [][qIdx' > qIdx /\ qPending' + qSize' > qPending + qSize => qSize < 250]_vars

C10_Witness ==
    /\ qPending = 100
    /\ qSize = 250
    /\ qIdx < QueueRepos


(***************************************************************************)
(* Supervision                                                             *)
(***************************************************************************)
Roles == {"repo", "writeCollection", "writeRecord"}

\* The configured number of workers of a role.
Target(role) ==
    IF role = "writeCollection" THEN 3
    ELSE IF role = "writeRecord" THEN 2
    ELSE RepoWorkerCount(numCPUs)

Live(role) == {id \in DOMAIN procs : procs[id].kind = role /\ procs[id].state = "live"}

AtTarget == \A role \in Roles : Cardinality(Live(role)) = Target(role)

\* The worker with this id exits in this step and the supervisor handles it.
Exits(id) == id \in NotExited(Sup) /\ procs'[id].state = "dead"

\* C5: after a single worker of a role exits from a state with every role at
\* its target, and the supervisor has handled the exit, the live workers of
\* that role are again exactly the configured number, and the replacement of
\* a write-by-collection worker has the slot index of the exited worker.
C5_ExitRestoresTarget ==
    [][\A id \in DOMAIN procs :
          AtTarget /\ procs[id].state = "live" /\ Exits(id)
            => /\ Cardinality(Live(procs[id].kind))' = Target(procs[id].kind)
               /\ procs[id].kind = "writeCollection"
                    => \E n \in Live("writeCollection")' :
                          /\ n \notin DOMAIN procs
                          /\ procs'[n].index = procs[id].index]_vars

\* A pid the 'exit' handler can attribute to a role.
Tracked(pid) == ExitBranch(Sup, pid) # "unknown"

\* C6: every worker process that has not exited is in the worker table under
\* its pid, and the exit handler never takes its 'unknown worker' branch.
C6_TableComplete ==
    /\ supState # "unknown worker"
    /\ \A id \in NotExited(Sup) : Tracked(procs[id].pid)

\* The slot (allocation index) a collection is statically assigned to.
SlotOf(c) == CHOOSE i \in Slots : c \in Allocations[i + 1]

\* The workers of a write-by-collection slot that have not exited.
SlotWorkers(i) ==
    {id \in NotExited(Sup) : procs[id].kind = "writeCollection" /\ procs[id].index = i}

SendsTo(fs, id) == {k \in DOMAIN fs : fs[k].to = id}

UriCollection(commit) == commit.uri[2]
UriDid(commit) == commit.uri[1]

Homogeneous(collection, commits) ==
    \A j \in DOMAIN commits : UriCollection(commits[j]) = collection

\* C12: every record of every batch sent, and of every buffer a batch is
\* made from, was decoded under the collection the batch is sent for.
C12_BatchHomogeneity ==
    /\ \A k \in DOMAIN sent : Homogeneous(sent[k].collection, sent[k].commits)
    /\ \A c \in DOMAIN commitData : Homogeneous(c, commitData[c])

\* Batches of both collections were sent, one of them with records of two
\* accounts whose jobs ran at the same time.
C12_Witness ==
    /\ \E k \in DOMAIN sent :
          /\ sent[k].collection = "posts"
          /\ {UriDid(sent[k].commits[j]) : j \in DOMAIN sent[k].commits} = Dids
    /\ \E k \in DOMAIN sent : sent[k].collection = "likes"
    /\ \A e \in Execs : execs[e].pc = "decode"


(***************************************************************************)
(* One account, from its fetch to the end of its job                       *)
(***************************************************************************)
PermanentlyUnavailable == {"RepoDeactivated", "RepoTakendown", "RepoNotFound"}

\* queueRepo has returned for the account.
FetchSettled == tasks[1].pc = "done"

\* The fetch ended with a protocol error that says the account is gone.
FetchEndedTerminal ==
    /\ FetchSettled
    /\ rpcPc = "thrown"
    /\ last.kind = "XRPCError"
    /\ last.name \in PermanentlyUnavailable

\* A run of the handler iterated the whole snapshot of did without error.
DecodedToCompletion(did) ==
    \E e \in Execs : execs[e].did = did /\ execs[e].path = "decoded"

\* C13: the account is in the Seen-Set only if its fetch ended with a
\* permanently-unavailable protocol error or its snapshot was decoded to the
\* end; after any other fetch failure, a read failure or a decode failure of
\* its only job, the Seen-Set is as it was (empty).
C13_SeenOnlyAfterTerminalOutcome ==
    /\ \A d \in seen :
          /\ d = FetchedEntry.did
          /\ FetchEndedTerminal \/ DecodedToCompletion(d)
    /\ FetchSettled /\ rpcPc = "thrown" /\ ~FetchEndedTerminal => seen = {}
    /\ \A e \in Execs :
          execs[e].path \in {"readerror", "decodefail"} => seen = {}

\* The snapshot was fetched, stored, decoded to the end and deleted, and only
\* then is the account seen.
C13_Witness ==
    /\ rpcPc = "returned"
    /\ execs[1].pc = "done"
    /\ execs[1].path = "decoded"
    /\ seen = {FetchedEntry.did}


(***************************************************************************)
(* Failures in the job handler                                             *)
(***************************************************************************)
\* The run e meets the decode failure of its snapshot in this step.
DecodeFails(e) == execs[e].pc = "decode" /\ execs'[e].path = "decodefail"

\* C14: the step in which a snapshot fails to decode leaves the worker
\* running, its job not failed, and every other run, the buffers and the
\* stores as they were; the run goes on to delete its snapshot and ends
\* without failing, unless a redelivered run of the same job took the
\* snapshot away under it (which fails a run whether or not it decoded).
C14_DecodeFailureIsolated ==
    /\ [][\A e \in Execs : DecodeFails(e) =>
            /\ workerState' = "running"
            /\ execs'[e].pc = "unlink"
            /\ \A o \in Execs \ {e} : execs'[o] = execs[o]
            /\ UNCHANGED <<commitData, sent, decoded, seen, files, jobs, activeJobs>>]_vars
    /\ [](\A e \in Execs :
            execs[e].path = "decodefail" /\ execs[e].did \notin stalls
              => execs[e].pc \in {"unlink", "done"})
    /\ [](workerState = "exited" =>
            \E e \in Execs : execs[e].pc = "failed" /\ execs[e].did \in stalls)

\* Two runs in progress at once: one has met its decode failure, the one
\* beside it, of another account, has decoded to the end; that account is
\* seen and the worker runs.
C14_Witness ==
    /\ workerState = "running"
    /\ execs[1].pc = "unlink" /\ execs[1].path = "decodefail"
    /\ execs[2].pc = "unlink" /\ execs[2].path = "decoded"
    /\ execs[1].did # execs[2].did
    /\ seen = {execs[2].did}
    /\ stalls = {}


\* C15: a request that failed to connect (TypeError) is the last one of its
\* logical request, at whatever attempt: the error is thrown with no sleep
\* and no retry, and queueRepo leaves the account unseen, stores no snapshot
\* and creates no job.
C15_ConnectFailureNotRetried ==
    last.kind = "TypeError" =>
      /\ rpcPc = "thrown"
      /\ sleeping = NotSleeping
      /\ ~last.retried
      /\ requests = last.attempt + 1
      /\ attempt = last.attempt
      /\ seen = {}
      /\ jobs = {} /\ activeJobs = {}
      /\ \A d \in Dids : enqueues[d] = 0 /\ files[d] = NoFile

\* The connection fails on the attempt numbered 3, after three retried
\* failures, and queueRepo has returned.
C15_Witness ==
    /\ last.kind = "TypeError"
    /\ last.attempt = 3
    /\ requests = 4
    /\ FetchSettled
    /\ seen = {}


(***************************************************************************)
(* Retries of WrappedRPC.request                                           *)
(***************************************************************************)
\* The wait processRatelimitHeaders derives from the last response.
DerivedWait ==
    processRatelimitHeaders(HeaderOf(last.remaining), HeaderOf(last.reset), last.now)

\* After the last response the client is in the rate-limit wait it derived,
\* with the retry still to come, or (no wait derived, or the wait over) is
\* about to make the next attempt of the same request.
WaitsThenRetries ==
    /\ last.retried
    /\ last.wait = DerivedWait
    /\ \/ /\ rpcPc = "sleeping"
          /\ last.wait.applied
          /\ sleeping = [ms |-> last.wait.ms, why |-> "ratelimit", next |-> "retry"]
          /\ attempt = last.attempt
       \/ /\ rpcPc = "request"
          /\ attempt = last.attempt + 1
    /\ requests = last.attempt + 1

\* Another protocol error is thrown to the caller: no sleep, no retry.
Surfaced ==
    /\ rpcPc = "thrown"
    /\ ~last.retried
    /\ sleeping = NotSleeping
    /\ attempt = last.attempt
    /\ requests = last.attempt + 1

\* C16 as stated: after every 429 response the client applies the derived
\* wait and then retries; any other protocol error is surfaced.
C16_Every429Retried ==
    /\ last.kind = "429" => WaitsThenRetries
    /\ last.kind = "XRPCError" => Surfaced

\* C16: after a 429 response on an attempt numbered 0..6 the client applies
\* the wait derived from the response and then retries; a 429 on attempt 7
\* is surfaced with no wait and no retry; any other protocol error is
\* surfaced without retry at every attempt.
C16_429RetriedUntilLastAttempt ==
    /\ last.kind = "429" /\ ~AttemptsExhausted(last.attempt) => WaitsThenRetries
    /\ last.kind = "429" /\ AttemptsExhausted(last.attempt)
         => Surfaced /\ last.wait = NoWait /\ last.attempt = 7
    /\ last.kind = "XRPCError" => Surfaced

\* A 429 whose wait was applied and is over: the retry is about to be made.
C16_Witness ==
    /\ last.kind = "429"
    /\ last.wait.applied
    /\ rpcPc = "request"
    /\ attempt = last.attempt + 1
    /\ attempt = 2


\* The ladder of the claim, in seconds.
LadderSeconds == <<1, 5, 15, 30, 60, 120, 300>>

\* Attempt indexes the expression backoffs[attempt] || 60000 is evaluated at
\* beyond the ladder.
MaxAttemptIndex == 9

\* The ladder's entry for k, and its last entry for a k beyond it.
LadderOrLast(k) ==
    IF k + 1 \in DOMAIN LadderSeconds
    THEN LadderSeconds[k + 1] * 1000
    ELSE LadderSeconds[Len(LadderSeconds)] * 1000

\* The client is in the sleep that follows a retried network-level failure.
BackingOff == rpcPc = "sleeping" /\ sleeping.why = "backoff"

RuleInstant(createdAt, rkey, now) ==
    IF createdAt.t = "date" THEN createdAt.ms
    ELSE IF rkey.t = "tid" THEN rkey.ms
    ELSE now

\* C18: the timestamp of a decoded record is the instant the rule names, or
\* the time of decoding if that instant is later; it is never later than the
\* time of decoding.
C18_TimestampRule ==
    stamped.done =>
      /\ stamped.ms <= clock
      /\ LET t == RuleInstant(yielded.createdAt, yielded.rkey, clock)
         IN  stamped.ms = IF t > clock THEN clock ELSE t


(***************************************************************************)
(* C19  Scheduler progress.  Provided every started fetch completes, the   *)
(* loop of main() is never blocked for ever at onSizeLessThan and walks    *)
(* the whole list, and every account it admitted (neither seen nor on the  *)
(* denylisted host) has its fetch started: the backlog empties and stays   *)
(* empty once the list is walked.                                          *)
(***************************************************************************)
Blocked == qIdx < QueueRepos /\ ~onSizeLessThan(qSize)

C19_SchedulerProgress ==
    /\ Blocked ~> ~Blocked
    /\ <>[](qIdx = QueueRepos /\ qSize = 0)

\* main() blocked with a full backlog behind a full set of running fetches,
\* every entry so far admitted.
C19_Witness ==
    /\ Blocked
    /\ qPending = concurrency
    /\ qIdx = concurrency + sizeLimit


(***************************************************************************)
(* C20  A missing snapshot is "nothing to do".  The step in which a job    *)
(* finds that its snapshot cannot be read (no such file, another error of  *)
(* Bun.mmap, or no bytes) ends the job without error: the handler has      *)
(* returned, no record was pushed onto commitData, the account was not     *)
(* added to backfill:seen, and the worker is still running.                *)
(***************************************************************************)
Unreadable(e) == execs[e].path \in {"enoent", "readerror"}

C20_MissingSnapshotIsNoOp ==
    /\ [][\A e \in Execs :
            (execs'[e] # execs[e] /\ execs'[e].path \in {"enoent", "readerror"}) =>
                /\ execs'[e].pc = "done"
                /\ commitData' = commitData
                /\ decoded' = decoded
                /\ seen' = seen
                /\ workerState = "running"
                /\ workerState' = "running"]_vars
    /\ [](\A e \in Execs : Unreadable(e) => execs[e].pc = "done")

\* A job whose file was gone has returned: its account is not seen and the
\* worker goes on, while the other slot holds a job it read.
C20_Witness ==
    /\ workerState = "running"
    /\ \E e \in Execs :
        /\ execs[e].path = "enoent"
        /\ execs[e].pc = "done"
        /\ execs[e].did \notin seen
        /\ \E x \in Execs \ {e} : execs[x].path = "decoded"


(***************************************************************************)
(* C21  No loss behind the Seen-Set.  Every record decoded from an account *)
(* that is in backfill:seen has been sent in some batch or will be: once   *)
(* the worker has exited no batch follows, so by then every record of a    *)
(* seen account must have been sent.                                       *)
(***************************************************************************)
\* The records pushed onto commitData for an account (nothing is ever
\* removed from commitData): all that was decoded from its snapshot.
DecodedFrom(did) ==
    UNION {{commitData[c][j] : j \in {k \in DOMAIN commitData[c] :
                                        UriDid(commitData[c][k]) = did}} :
           c \in DOMAIN commitData}

SentRecords ==
    UNION {{sent[k].commits[j] : j \in DOMAIN sent[k].commits} : k \in DOMAIN sent}

C21_NoLossBehindSeen ==
    workerState = "exited" =>
        \A did \in seen : DecodedFrom(did) \subseteq SentRecords


(***************************************************************************)
(* C22  Overlapping redelivery is harmless.  When a job was delivered      *)
(* twice and both runs of the handler read the snapshot (the second began  *)
(* before the first deleted it), neither run fails, the worker does not    *)
(* exit, and once both have ended the snapshot was deleted exactly once.   *)
(***************************************************************************)
ReadSnapshot(e) ==
    /\ execs[e].pc \in {"decode", "unlink", "done", "failed"}
    /\ ~Unreadable(e)

Overlapping(e1, e2) ==
    /\ e1 # e2
    /\ execs[e1].did = execs[e2].did
    /\ execs[e1].did \in stalls
    /\ ReadSnapshot(e1)
    /\ ReadSnapshot(e2)

C22_OverlappingRedeliveryHarmless ==
    \A e1, e2 \in Execs :
        Overlapping(e1, e2) =>
            /\ execs[e1].pc # "failed"
            /\ execs[e2].pc # "failed"
            /\ workerState = "running"
            /\ (execs[e1].pc = "done" /\ execs[e2].pc = "done") =>
                    execs[e1].unlinks + execs[e2].unlinks = 1

====
